---------------------------- MODULE Spec2Model ----------------------------
(***************************************************************************)
(* Model of the CCS811 air-quality driver in src/main.cpp.                 *)
(*                                                                         *)
(* The program is one sequential control flow.  Every step of the model    *)
(* is one I2C transaction (i2c.write or i2c.read) together with the local  *)
(* code that runs after it up to the next transaction: the decode of the   *)
(* bytes read, the branch taken, the lines printed, die() and the return   *)
(* to the caller.  The transport is the environment: each transaction      *)
(* succeeds (returns 0) or fails (returns non-zero), and a read delivers   *)
(* any bytes.                                                              *)
(*                                                                         *)
(* `char' is the unsigned 8-bit char of the ARM ABI that every mbed target *)
(* uses; integer promotion and the truncation on assignment to a char are  *)
(* modelled with arithmetic on 0..255.  wait(0.5) changes no state.        *)
(***************************************************************************)
EXTENDS Integers, Sequences, FiniteSets, TLC

(***************************************************************************)
(* Air sensor constants (main.cpp lines 28-55), in decimal.                *)
(***************************************************************************)
\* 0x5A << 1
AIR_ADDR == 180

AIR_STATUS_REG == 0

\* 0x01
AIR_STATUS_ERROR_MASK == 1

\* 0x08
AIR_STATUS_DATA_READY_MASK == 8

\* 0x16
AIR_STATUS_APP_VALID_MASK == 22

\* 0x80
AIR_STATUS_FW_MODE_MASK == 128

AIR_STATUS_FW_MODE_BOOT == 0

AIR_STATUS_FW_MODE_APP == 1

AIR_MODE_REG == 1

\* 0x70
AIR_MODE_DRIVE_MODE_MASK == 112

AIR_MODE_IDLE == 0

AIR_MODE_1_SECOND == 1

\* 0xE0
AIR_ERROR_ID_REG == 224

AIR_ERROR_ID_BAD_WRITE == 0

AIR_ERROR_ID_BAD_READ == 1

AIR_ERROR_ID_BAD_MODE == 2

AIR_ERROR_ID_MAX_RESISTANCE == 3

AIR_ERROR_ID_HEATER_FAULT == 4

AIR_ERROR_ID_HEATER_SUPPLY == 5

AIR_ALG_RESULT_DATA_REG == 2

\* 0xF4
AIR_BOOT_APP_START_REG == 244

(***************************************************************************)
(* Bounds of the model.                                                    *)
(***************************************************************************)
\* The high bytes (buf[0], buf[2]) of an algorithm result the transport
\* delivers are 0..MaxHiByte and 255.
MaxHiByte == 2

\* The values a char holds.
Byte == 0 .. 255

\* The drive modes a caller of the session operations passes: the 3-bit field.
DriveModes == 0 .. 7

HiBytes == (0 .. MaxHiByte) \cup {255}

\* The low bytes (buf[1], buf[3]) of an algorithm result the transport
\* delivers: 0x0A, 0x58, 0x64 and 0x90 (high bit set).
LoBytes == {10, 88, 100, 144}

AlgBufs == {<<a, b, c, d>> : a \in HiBytes, b \in LoBytes, c \in HiBytes, d \in LoBytes}

(***************************************************************************)
(* C operators on chars.                                                   *)
(***************************************************************************)
Pow2(n) == IF n = 0 THEN 1 ELSE IF n = 1 THEN 2 ELSE IF n = 2 THEN 4
           ELSE IF n = 3 THEN 8 ELSE IF n = 4 THEN 16 ELSE IF n = 5 THEN 32
           ELSE IF n = 6 THEN 64 ELSE IF n = 7 THEN 128 ELSE 256

Bit(x, i) == (x \div Pow2(i)) % 2

\* x & y on operands below 256.
RECURSIVE BitAndN(_, _, _)
BitAndN(x, y, n) ==
    IF n = 0 THEN 0
    ELSE (x % 2) * (y % 2) + 2 * BitAndN(x \div 2, y \div 2, n - 1)

BitAnd(x, y) == BitAndN(x, y, 8)

\* x | y on operands below 65536.
RECURSIVE BitOrN(_, _, _)
BitOrN(x, y, n) ==
    IF n = 0 THEN 0
    ELSE (IF (x % 2) + (y % 2) > 0 THEN 1 ELSE 0) + 2 * BitOrN(x \div 2, y \div 2, n - 1)

BitOr(x, y) == BitOrN(x, y, 16)

\* x >> n of a non-negative int.
ShiftRight(x, n) == x \div Pow2(n)

\* x << n of a char promoted to int (no truncation).
ShiftLeft(x, n) == x * Pow2(n)

\* Assignment of an int to a char.
ToChar(x) == x % 256

\* Assignment of an int to a uint16_t.
ToUint16(x) == x % 65536

\* !x
LogicalNot(x) == IF x = 0 THEN 1 ELSE 0

VARIABLES
    mainpc,           \* the line of main() whose call is running, or "session"
    fn,               \* the session operation that call runs
    fpc,              \* the next bus transaction inside it, or "exited"
    drive_mode,       \* the argument of air_write_mode
    air_status,       \* the caller's air_status_t, <<>> before its first write
    buf,              \* air_write_mode's buf[2], <<>> outside it
    air_alg_result,   \* the air_alg_result_t of the loop body, <<>> outside it
    retval,           \* the char a session operation returned, <<>> if none
    last,             \* the most recent bus transaction
    selected,         \* the register address the most recent write began with,
                      \* -1 before the first write
    status_all_0x88,  \* every status byte read so far was 0x88
    mode_stored,      \* <<v, d>>: the byte v the latest successful write to the
                      \* mode register carried and the drive mode d asked for,
                      \* <<>> before the first
    printed,          \* the lines the most recent step printed
    exit_code         \* <<>> while running, <<1>> after exit(1)

vars == <<mainpc, fn, fpc, drive_mode, air_status, buf, air_alg_result, retval,
          last, selected, status_all_0x88, mode_stored, printed, exit_code>>


(***************************************************************************)
(* The pure parts of the session operations.                               *)
(***************************************************************************)
\* air_read_status with the shift of line 116 left out.
air_read_status_decode_app_valid_unshifted(raw_status) ==
    [fw_mode    |-> ToChar(ShiftRight(BitAnd(raw_status, AIR_STATUS_FW_MODE_MASK), 7)),
     app_valid  |-> ToChar(BitAnd(raw_status, AIR_STATUS_APP_VALID_MASK)),
     data_ready |-> ToChar(ShiftRight(BitAnd(raw_status, AIR_STATUS_DATA_READY_MASK), 3)),
     error      |-> ToChar(BitAnd(raw_status, AIR_STATUS_ERROR_MASK)),
     raw        |-> raw_status]

\* air_read_status, lines 115-119: the fields unpacked from raw_status.
air_read_status_decode(raw_status) ==
    [fw_mode    |-> ToChar(ShiftRight(BitAnd(raw_status, AIR_STATUS_FW_MODE_MASK), 7)),
     app_valid  |-> ToChar(ShiftRight(BitAnd(raw_status, AIR_STATUS_APP_VALID_MASK), 4)),
     data_ready |-> ToChar(ShiftRight(BitAnd(raw_status, AIR_STATUS_DATA_READY_MASK), 3)),
     error      |-> ToChar(BitAnd(raw_status, AIR_STATUS_ERROR_MASK)),
     raw        |-> raw_status]

\* air_die with the break of line 164 left out: the heater fault case falls
\* through to the heater supply case.
air_die_str_missing_break(air_error_id) ==
    CASE air_error_id = AIR_ERROR_ID_BAD_WRITE ->
             "a write occurred for an invalid register address"
      [] air_error_id = AIR_ERROR_ID_BAD_READ ->
             "a read occurred for an invalid register address"
      [] air_error_id = AIR_ERROR_ID_BAD_MODE ->
             "the measurement drive mode is invalid"
      [] air_error_id = AIR_ERROR_ID_MAX_RESISTANCE ->
             "the resistance is set too high"
      [] air_error_id = AIR_ERROR_ID_HEATER_FAULT ->
             "the heater's voltage is not being applied correctly"
      [] air_error_id = AIR_ERROR_ID_HEATER_SUPPLY ->
             "the heater's voltage is not being applied correctly"
      [] OTHER -> "unknown error!"

\* air_die with the messages of the two heater cases exchanged.
air_die_str_heater_swapped(air_error_id) ==
    CASE air_error_id = AIR_ERROR_ID_BAD_WRITE ->
             "a write occurred for an invalid register address"
      [] air_error_id = AIR_ERROR_ID_BAD_READ ->
             "a read occurred for an invalid register address"
      [] air_error_id = AIR_ERROR_ID_BAD_MODE ->
             "the measurement drive mode is invalid"
      [] air_error_id = AIR_ERROR_ID_MAX_RESISTANCE ->
             "the resistance is set too high"
      [] air_error_id = AIR_ERROR_ID_HEATER_FAULT ->
             "the heater's voltage is not being applied correctly"
      [] air_error_id = AIR_ERROR_ID_HEATER_SUPPLY ->
             "the heater's current was not in range"
      [] OTHER -> "unknown error!"

\* air_die, lines 149-171: the message the switch selects.
air_die_str(air_error_id) ==
    CASE air_error_id = AIR_ERROR_ID_BAD_WRITE ->
             "a write occurred for an invalid register address"
      [] air_error_id = AIR_ERROR_ID_BAD_READ ->
             "a read occurred for an invalid register address"
      [] air_error_id = AIR_ERROR_ID_BAD_MODE ->
             "the measurement drive mode is invalid"
      [] air_error_id = AIR_ERROR_ID_MAX_RESISTANCE ->
             "the resistance is set too high"
      [] air_error_id = AIR_ERROR_ID_HEATER_FAULT ->
             "the heater's current was not in range"
      [] air_error_id = AIR_ERROR_ID_HEATER_SUPPLY ->
             "the heater's voltage is not being applied correctly"
      [] OTHER -> "unknown error!"

\* air_boot with the check of line 193 left out.
air_boot_branch_no_valid_check(st) ==
    IF st.fw_mode = AIR_STATUS_FW_MODE_APP THEN "return" ELSE "boot_cmd"

\* air_boot with the check of line 193 made before the check of line 187.
air_boot_branch_valid_check_first(st) ==
    IF LogicalNot(st.app_valid) # 0 THEN "die"
    ELSE IF st.fw_mode = AIR_STATUS_FW_MODE_APP THEN "return"
    ELSE "boot_cmd"

\* air_boot with the `!' of line 193 left out.
air_boot_branch_valid_check_inverted(st) ==
    IF st.fw_mode = AIR_STATUS_FW_MODE_APP THEN "return"
    ELSE IF st.app_valid # 0 THEN "die"
    ELSE "boot_cmd"

\* air_boot, lines 186-198: what air_boot does with the status it read.
air_boot_branch(st) ==
    IF st.fw_mode = AIR_STATUS_FW_MODE_APP THEN "return"
    ELSE IF LogicalNot(st.app_valid) # 0 THEN "die"
    ELSE "boot_cmd"

\* air_read_mode, line 217: the drive mode field of the mode register.
air_read_mode_field(air_mode_buf) ==
    ToChar(ShiftRight(BitAnd(air_mode_buf, AIR_MODE_DRIVE_MODE_MASK), 4))

\* air_write_mode with the drive mode shifted by 3 bits, not 4.
air_write_mode_pack_shift_3(measurement_mode, d) ==
    LET write_drive_mode == ToChar(ShiftLeft(d, 3))
        masked == ToChar(BitAnd(measurement_mode, LogicalNot(AIR_MODE_DRIVE_MODE_MASK)))
    IN  ToChar(BitOr(write_drive_mode, masked))

\* air_write_mode, lines 239-242: the byte written to the mode register.
air_write_mode_pack(measurement_mode, d) ==
    LET write_drive_mode == ToChar(ShiftLeft(d, 4))
        masked == ToChar(BitAnd(measurement_mode, LogicalNot(AIR_MODE_DRIVE_MODE_MASK)))
    IN  ToChar(BitOr(write_drive_mode, masked))

\* air_read_alg_result with the bytes of each value taken low byte first.
air_read_alg_result_unpack_low_first(b) ==
    [eco2 |-> ToUint16(BitOr(ShiftLeft(b[2], 8), b[1])),
     tvoc |-> ToUint16(BitOr(ShiftLeft(b[4], 8), b[3]))]

\* air_read_alg_result, lines 281-282: the result unpacked from buf[4].
air_read_alg_result_unpack(b) ==
    [eco2 |-> ToUint16(BitOr(ShiftLeft(b[1], 8), b[2])),
     tvoc |-> ToUint16(BitOr(ShiftLeft(b[3], 8), b[4]))]

(***************************************************************************)
(* The bus and the console.                                                *)
(***************************************************************************)
\* A bus transaction: the bytes written or delivered and whether it returned 0.
Transaction(op, len, data, ok) ==
    [op |-> op, addr |-> AIR_ADDR, len |-> len, data |-> data, ok |-> ok]

\* i2c.write(AIR_ADDR, data, Len(data)).
i2c_write(data, ok) ==
    /\ last' = Transaction("write", Len(data), data, ok)
    /\ selected' = data[1]
    /\ mode_stored' = IF ok /\ Len(data) = 2 /\ data[1] = AIR_MODE_REG
                       THEN <<data[2], drive_mode[1]>>
                       ELSE mode_stored
    /\ UNCHANGED status_all_0x88

\* i2c.read(AIR_ADDR, buffer, len), which delivers data to the buffer.
i2c_read(len, data, ok) ==
    /\ last' = Transaction("read", len, data, ok)
    /\ status_all_0x88' = IF ok /\ selected = AIR_STATUS_REG
                           THEN status_all_0x88 /\ data = <<136>>
                           ELSE status_all_0x88
    /\ UNCHANGED <<selected, mode_stored>>

NoTransaction == [op |-> "none", addr |-> 0, len |-> 0, data |-> <<>>, ok |-> TRUE]

\* A printf: the format and its arguments.
Line(fmt, args) == [fmt |-> fmt, args |-> args]

\* The caller's air_status_t after a step that does not write it.  A caller in
\* a session passes a fresh one to every call.
KeepStatus == IF mainpc = "session" THEN <<>> ELSE air_status

\* die() ending the process with exit(0).
die_exit_success(fmt, args) ==
    /\ printed' = <<Line(fmt, args), Line("\r\n", <<>>)>>
    /\ exit_code' = <<0>>
    /\ fpc' = "exited"
    /\ air_status' = <<>>
    /\ buf' = <<>>
    /\ air_alg_result' = <<>>
    /\ retval' = <<>>
    /\ UNCHANGED <<mainpc, fn, drive_mode>>

\* die(), lines 57-67: print the message, then exit(1).  The variables of the
\* process end with it.
die(fmt, args) ==
    /\ printed' = <<Line(fmt, args), Line("\r\n", <<>>)>>
    /\ exit_code' = <<1>>
    /\ fpc' = "exited"
    /\ air_status' = <<>>
    /\ buf' = <<>>
    /\ air_alg_result' = <<>>
    /\ retval' = <<>>
    /\ UNCHANGED <<mainpc, fn, drive_mode>>

\* A step that hands its caller no result: an air_alg_result_t and a returned
\* char are the caller's for the one step that follows the return.
NoOutput == air_alg_result' = <<>> /\ retval' = <<>>

\* The next transaction of the running operation.
Goto(next_fpc) ==
    /\ fpc' = next_fpc
    /\ printed' = <<>>
    /\ UNCHANGED <<mainpc, fn, drive_mode, exit_code>>

\* air_read_alg_result without the select of line 272: it begins with the read.
Entry_no_alg_select(f) ==
    CASE f = "air_read_status" -> "status_select"
      [] f = "air_read_error_id" -> "errid_select"
      [] f = "air_die" -> "status_select"
      [] f = "air_boot" -> "status_select"
      [] f = "air_read_mode" -> "mode_select"
      [] f = "air_write_mode" -> "mode_select"
      [] f = "air_read_alg_result" -> "alg_read"

\* The first transaction of each session operation.
Entry(f) ==
    CASE f = "air_read_status" -> "status_select"
      [] f = "air_read_error_id" -> "errid_select"
      [] f = "air_die" -> "status_select"
      [] f = "air_boot" -> "status_select"
      [] f = "air_read_mode" -> "mode_select"
      [] f = "air_write_mode" -> "mode_select"
      [] f = "air_read_alg_result" -> "alg_select"

\* The caller calls f(arg) after printing lines.
Call(pc, f, arg, lines) ==
    /\ mainpc' = pc
    /\ fn' = f
    /\ fpc' = Entry(f)
    /\ drive_mode' = arg
    /\ printed' = lines

\* The calls a user of the session operations makes.
SessionCalls ==
    {[fn |-> f, arg |-> <<>>] :
        f \in {"air_read_status", "air_read_error_id", "air_die", "air_boot",
               "air_read_mode", "air_read_alg_result"}}
    \cup {[fn |-> "air_write_mode", arg |-> <<d>>] : d \in DriveModes}

\* main() without the air_die() of line 291.
main_no_fault_check_after_boot(before, result) ==
    CASE mainpc = "L290" ->
             Call("L296", "air_write_mode", <<AIR_MODE_1_SECOND>>,
                  before \o <<Line("air: booted\r\n", <<>>),
                              Line("air: setting measurement mode\r\n", <<>>)>>)
      [] mainpc = "L291" ->
             Call("L296", "air_write_mode", <<AIR_MODE_1_SECOND>>,
                  before \o <<Line("air: booted\r\n", <<>>),
                              Line("air: setting measurement mode\r\n", <<>>)>>)
      [] mainpc = "L296" ->
             Call("L297", "air_die", <<>>, before)
      [] mainpc = "L297" ->
             Call("L302", "air_read_status", <<>>,
                  before \o <<Line("air: set measurement mode\r\n", <<>>)>>)
      [] mainpc = "L302" ->
             Call("L307", "air_read_status", <<>>,
                  before \o <<Line("air: polling status until data ready\r\n", <<>>)>>)
      [] mainpc = "L307" ->
             Call("L308", "air_die", <<>>, before)
      [] mainpc = "L308" ->
             IF LogicalNot(air_status.data_ready) # 0
             THEN Call("L307", "air_read_status", <<>>,
                       before \o <<Line("air: polling status until data ready\r\n",
                                        <<>>)>>)
             ELSE Call("L315", "air_read_alg_result", <<>>,
                       before \o <<Line("air: data ready\r\n", <<>>)>>)
      [] mainpc = "L315" ->
             Call("L302", "air_read_status", <<>>,
                  before \o <<Line("air: tvoc=%d\r\n", <<result.tvoc>>)>>)

\* main() with the loop test of line 310 negated.
main_until_not_ready(before, result) ==
    CASE mainpc = "L290" ->
             Call("L291", "air_die", <<>>, before)
      [] mainpc = "L291" ->
             Call("L296", "air_write_mode", <<AIR_MODE_1_SECOND>>,
                  before \o <<Line("air: booted\r\n", <<>>),
                              Line("air: setting measurement mode\r\n", <<>>)>>)
      [] mainpc = "L296" ->
             Call("L297", "air_die", <<>>, before)
      [] mainpc = "L297" ->
             Call("L302", "air_read_status", <<>>,
                  before \o <<Line("air: set measurement mode\r\n", <<>>)>>)
      [] mainpc = "L302" ->
             Call("L307", "air_read_status", <<>>,
                  before \o <<Line("air: polling status until data ready\r\n", <<>>)>>)
      [] mainpc = "L307" ->
             Call("L308", "air_die", <<>>, before)
      [] mainpc = "L308" ->
             IF LogicalNot(air_status.data_ready) = 0
             THEN Call("L307", "air_read_status", <<>>,
                       before \o <<Line("air: polling status until data ready\r\n",
                                        <<>>)>>)
             ELSE Call("L315", "air_read_alg_result", <<>>,
                       before \o <<Line("air: data ready\r\n", <<>>)>>)
      [] mainpc = "L315" ->
             Call("L302", "air_read_status", <<>>,
                  before \o <<Line("air: tvoc=%d\r\n", <<result.tvoc>>)>>)

\* main() without the air_die() of line 308: the loop test follows the read.
main_no_fault_check_in_loop(before, result) ==
    CASE mainpc = "L290" ->
             Call("L291", "air_die", <<>>, before)
      [] mainpc = "L291" ->
             Call("L296", "air_write_mode", <<AIR_MODE_1_SECOND>>,
                  before \o <<Line("air: booted\r\n", <<>>),
                              Line("air: setting measurement mode\r\n", <<>>)>>)
      [] mainpc = "L296" ->
             Call("L297", "air_die", <<>>, before)
      [] mainpc = "L297" ->
             Call("L302", "air_read_status", <<>>,
                  before \o <<Line("air: set measurement mode\r\n", <<>>)>>)
      [] mainpc = "L302" ->
             Call("L307", "air_read_status", <<>>,
                  before \o <<Line("air: polling status until data ready\r\n", <<>>)>>)
      [] mainpc = "L307" ->
             IF LogicalNot(air_status.data_ready) # 0
             THEN Call("L307", "air_read_status", <<>>,
                       before \o <<Line("air: polling status until data ready\r\n",
                                        <<>>)>>)
             ELSE Call("L315", "air_read_alg_result", <<>>,
                       before \o <<Line("air: data ready\r\n", <<>>)>>)
      [] mainpc = "L308" ->
             IF LogicalNot(air_status.data_ready) # 0
             THEN Call("L307", "air_read_status", <<>>,
                       before \o <<Line("air: polling status until data ready\r\n",
                                        <<>>)>>)
             ELSE Call("L315", "air_read_alg_result", <<>>,
                       before \o <<Line("air: data ready\r\n", <<>>)>>)
      [] mainpc = "L315" ->
             Call("L302", "air_read_status", <<>>,
                  before \o <<Line("air: tvoc=%d\r\n", <<result.tvoc>>)>>)

\* main() with a loop at lines 306-310 that never ends.
main_poll_forever(before, result) ==
    CASE mainpc = "L290" ->
             Call("L291", "air_die", <<>>, before)
      [] mainpc = "L291" ->
             Call("L296", "air_write_mode", <<AIR_MODE_1_SECOND>>,
                  before \o <<Line("air: booted\r\n", <<>>),
                              Line("air: setting measurement mode\r\n", <<>>)>>)
      [] mainpc = "L296" ->
             Call("L297", "air_die", <<>>, before)
      [] mainpc = "L297" ->
             Call("L302", "air_read_status", <<>>,
                  before \o <<Line("air: set measurement mode\r\n", <<>>)>>)
      [] mainpc = "L302" ->
             Call("L307", "air_read_status", <<>>,
                  before \o <<Line("air: polling status until data ready\r\n", <<>>)>>)
      [] mainpc = "L307" ->
             Call("L308", "air_die", <<>>, before)
      [] mainpc = "L308" ->
             IF TRUE
             THEN Call("L307", "air_read_status", <<>>,
                       before \o <<Line("air: polling status until data ready\r\n",
                                        <<>>)>>)
             ELSE Call("L315", "air_read_alg_result", <<>>,
                       before \o <<Line("air: data ready\r\n", <<>>)>>)
      [] mainpc = "L315" ->
             Call("L302", "air_read_status", <<>>,
                  before \o <<Line("air: tvoc=%d\r\n", <<result.tvoc>>)>>)

\* main() with a loop that goes back to line 296 after each report.
main_sets_mode_every_cycle(before, result) ==
    CASE mainpc = "L290" ->
             Call("L291", "air_die", <<>>, before)
      [] mainpc = "L291" ->
             Call("L296", "air_write_mode", <<AIR_MODE_1_SECOND>>,
                  before \o <<Line("air: booted\r\n", <<>>),
                              Line("air: setting measurement mode\r\n", <<>>)>>)
      [] mainpc = "L296" ->
             Call("L297", "air_die", <<>>, before)
      [] mainpc = "L297" ->
             Call("L302", "air_read_status", <<>>,
                  before \o <<Line("air: set measurement mode\r\n", <<>>)>>)
      [] mainpc = "L302" ->
             Call("L307", "air_read_status", <<>>,
                  before \o <<Line("air: polling status until data ready\r\n", <<>>)>>)
      [] mainpc = "L307" ->
             Call("L308", "air_die", <<>>, before)
      [] mainpc = "L308" ->
             IF LogicalNot(air_status.data_ready) # 0
             THEN Call("L307", "air_read_status", <<>>,
                       before \o <<Line("air: polling status until data ready\r\n",
                                        <<>>)>>)
             ELSE Call("L315", "air_read_alg_result", <<>>,
                       before \o <<Line("air: data ready\r\n", <<>>)>>)
      [] mainpc = "L315" ->
             Call("L296", "air_write_mode", <<AIR_MODE_1_SECOND>>,
                  before \o <<Line("air: tvoc=%d\r\n", <<result.tvoc>>)>>)

\* main(), lines 285-319: what follows the return of the call at mainpc.
\* result is the air_alg_result the call at line 315 filled; before holds the
\* lines the call printed ahead of its return.
main(before, result) ==
    CASE mainpc = "L290" ->
             Call("L291", "air_die", <<>>, before)
      [] mainpc = "L291" ->
             Call("L296", "air_write_mode", <<AIR_MODE_1_SECOND>>,
                  before \o <<Line("air: booted\r\n", <<>>),
                              Line("air: setting measurement mode\r\n", <<>>)>>)
      [] mainpc = "L296" ->
             Call("L297", "air_die", <<>>, before)
      [] mainpc = "L297" ->
             Call("L302", "air_read_status", <<>>,
                  before \o <<Line("air: set measurement mode\r\n", <<>>)>>)
      [] mainpc = "L302" ->
             Call("L307", "air_read_status", <<>>,
                  before \o <<Line("air: polling status until data ready\r\n", <<>>)>>)
      [] mainpc = "L307" ->
             Call("L308", "air_die", <<>>, before)
      [] mainpc = "L308" ->
             IF LogicalNot(air_status.data_ready) # 0
             THEN Call("L307", "air_read_status", <<>>,
                       before \o <<Line("air: polling status until data ready\r\n",
                                        <<>>)>>)
             ELSE Call("L315", "air_read_alg_result", <<>>,
                       before \o <<Line("air: data ready\r\n", <<>>)>>)
      [] mainpc = "L315" ->
             Call("L302", "air_read_status", <<>>,
                  before \o <<Line("air: tvoc=%d\r\n", <<result.tvoc>>)>>)

\* The running operation returns to its caller.
Return(before, result) ==
    /\ exit_code' = exit_code
    /\ IF mainpc = "session"
       THEN \E c \in SessionCalls : Call("session", c.fn, c.arg, before)
       ELSE main(before, result)

NoResult == [eco2 |-> 0, tvoc |-> 0]

(***************************************************************************)
(* air_read_status, lines 105-120, as called by main(), air_boot() and     *)
(* air_die().                                                              *)
(***************************************************************************)
\* line 106: select the status register.
air_read_status_select ==
    /\ fpc = "status_select"
    /\ \E ok \in BOOLEAN :
          /\ i2c_write(<<AIR_STATUS_REG>>, ok)
          /\ IF ok
             THEN /\ Goto("status_read")
                  /\ air_status' = KeepStatus
                  /\ UNCHANGED buf /\ NoOutput
             ELSE die("air: read_status: failed to select status register", <<>>)

\* air_boot, lines 186-200, after its air_read_status filled st.
air_boot_after_status(st) ==
    CASE air_boot_branch(st) = "return" ->
             /\ Return(<<>>, NoResult)
             /\ air_status' = KeepStatus
             /\ UNCHANGED buf /\ NoOutput
      [] air_boot_branch(st) = "die" ->
             die("air: boot: cannot boot, invalid app on device", <<>>)
      [] air_boot_branch(st) = "boot_cmd" ->
             /\ Goto("boot_cmd")
             /\ air_status' = KeepStatus
             /\ UNCHANGED buf /\ NoOutput

\* air_die reading the error id whatever the status is.
air_die_after_status_always_reads_id(st) ==
    /\ Goto("errid_select")
    /\ air_status' = KeepStatus
    /\ UNCHANGED buf /\ NoOutput

\* air_die returning whatever the status is.
air_die_after_status_ignores_error(st) ==
    /\ Return(<<>>, NoResult)
    /\ air_status' = KeepStatus
    /\ UNCHANGED buf /\ NoOutput

\* air_die with the test of line 145 negated.
air_die_after_status_inverted(st) ==
    IF st.error = 0
    THEN /\ Goto("errid_select")
         /\ air_status' = KeepStatus
         /\ UNCHANGED buf /\ NoOutput
    ELSE /\ Return(<<>>, NoResult)
         /\ air_status' = KeepStatus
         /\ UNCHANGED buf /\ NoOutput

\* air_die, line 145, after its air_read_status filled st.
air_die_after_status(st) ==
    IF st.error # 0
    THEN /\ Goto("errid_select")
         /\ air_status' = KeepStatus
         /\ UNCHANGED buf /\ NoOutput
    ELSE /\ Return(<<>>, NoResult)
         /\ air_status' = KeepStatus
         /\ UNCHANGED buf /\ NoOutput

\* lines 110-119: read and unpack the status register, then back in the caller.
air_read_status_read ==
    /\ fpc = "status_read"
    /\ \E ok \in BOOLEAN :
          IF ok
          THEN \E raw_status \in Byte :
                  /\ i2c_read(1, <<raw_status>>, TRUE)
                  /\ CASE fn = "air_read_status" ->
                              /\ air_status' = air_read_status_decode(raw_status)
                              /\ Return(<<>>, NoResult)
                              /\ UNCHANGED buf /\ NoOutput
                       [] fn = "air_boot" ->
                              air_boot_after_status(air_read_status_decode(raw_status))
                       [] fn = "air_die" ->
                              air_die_after_status(air_read_status_decode(raw_status))
          ELSE /\ i2c_read(1, <<>>, FALSE)
               /\ die("air: read_status: failed to read air status register", <<>>)

(***************************************************************************)
(* air_read_error_id, lines 126-137, and the rest of air_die.              *)
(***************************************************************************)
\* line 127: select the error id register.
air_read_error_id_select ==
    /\ fpc = "errid_select"
    /\ \E ok \in BOOLEAN :
          /\ i2c_write(<<AIR_ERROR_ID_REG>>, ok)
          /\ IF ok
             THEN /\ Goto("errid_read")
                  /\ air_status' = KeepStatus
                  /\ UNCHANGED buf /\ NoOutput
             ELSE die("air: read_error_id: failed to select error id register", <<>>)

\* lines 131-136: read the error id; air_die (lines 147-173) then dies with
\* the message of that id, another caller gets the id.
air_read_error_id_read ==
    /\ fpc = "errid_read"
    /\ \E ok \in BOOLEAN :
          IF ok
          THEN \E air_error_id \in Byte :
                  /\ i2c_read(1, <<air_error_id>>, TRUE)
                  /\ IF fn = "air_die"
                     THEN die("air: error: %s\r\n", <<air_die_str(air_error_id)>>)
                     ELSE /\ Return(<<>>, NoResult)
                          /\ retval' = <<air_error_id>>
                          /\ air_status' = KeepStatus
                          /\ UNCHANGED buf /\ air_alg_result' = <<>>
          ELSE /\ i2c_read(1, <<>>, FALSE)
               /\ die("air: read_error_id: failed to read error id", <<>>)

(***************************************************************************)
(* air_boot, lines 197-200.                                                *)
(***************************************************************************)
\* air_boot with the result of the write of line 198 not checked.
air_boot_cmd_unchecked ==
    /\ fpc = "boot_cmd"
    /\ \E ok \in BOOLEAN :
          /\ i2c_write(<<AIR_BOOT_APP_START_REG>>, ok)
          /\ Return(<<>>, NoResult)
          /\ air_status' = KeepStatus
          /\ UNCHANGED buf /\ NoOutput

\* line 198: send the boot command.
air_boot_cmd ==
    /\ fpc = "boot_cmd"
    /\ \E ok \in BOOLEAN :
          /\ i2c_write(<<AIR_BOOT_APP_START_REG>>, ok)
          /\ IF ok
             THEN /\ Return(<<>>, NoResult)
                  /\ air_status' = KeepStatus
                  /\ UNCHANGED buf /\ NoOutput
             ELSE die("air: boot: failed to boot", <<>>)

(***************************************************************************)
(* air_read_mode, lines 207-220.                                           *)
(***************************************************************************)
air_read_mode_select ==
    /\ fpc = "mode_select"
    /\ fn = "air_read_mode"
    /\ \E ok \in BOOLEAN :
          /\ i2c_write(<<AIR_MODE_REG>>, ok)
          /\ IF ok
             THEN /\ Goto("mode_read")
                  /\ air_status' = KeepStatus
                  /\ UNCHANGED buf /\ NoOutput
             ELSE die("air: read_mode: failed to set drive mode to constant high freq",
                      <<>>)

air_read_mode_read ==
    /\ fpc = "mode_read"
    /\ fn = "air_read_mode"
    /\ \E ok \in BOOLEAN :
          IF ok
          THEN \E air_mode_buf \in Byte :
                  /\ i2c_read(1, <<air_mode_buf>>, TRUE)
                  /\ Return(<<>>, NoResult)
                  /\ retval' = <<air_read_mode_field(air_mode_buf)>>
                  /\ air_status' = KeepStatus
                  /\ UNCHANGED buf /\ air_alg_result' = <<>>
          ELSE /\ i2c_read(1, <<>>, FALSE)
               /\ die("air: read_mode: failed to read mode register", <<>>)

(***************************************************************************)
(* air_write_mode, lines 227-252.                                          *)
(***************************************************************************)
\* line 229: select the mode register.
air_write_mode_select ==
    /\ fpc = "mode_select"
    /\ fn = "air_write_mode"
    /\ \E ok \in BOOLEAN :
          /\ i2c_write(<<AIR_MODE_REG>>, ok)
          /\ IF ok
             THEN /\ Goto("mode_read")
                  /\ air_status' = KeepStatus
                  /\ UNCHANGED buf /\ NoOutput
             ELSE die("air: write_mode: failed to select measurement mode register",
                      <<>>)

\* lines 233-247: read the current mode and pack the new one into buf.
air_write_mode_read ==
    /\ fpc = "mode_read"
    /\ fn = "air_write_mode"
    /\ \E ok \in BOOLEAN :
          IF ok
          THEN \E measurement_mode \in Byte :
                  /\ i2c_read(1, <<measurement_mode>>, TRUE)
                  /\ Goto("mode_write")
                  /\ buf' = <<AIR_MODE_REG,
                              air_write_mode_pack(measurement_mode, drive_mode[1])>>
                  /\ air_status' = KeepStatus
                  /\ NoOutput
          ELSE /\ i2c_read(1, <<>>, FALSE)
               /\ die("air: write_mode: failed to read measurement mode register", <<>>)

\* line 249: write buf to the sensor.
air_write_mode_write ==
    /\ fpc = "mode_write"
    /\ \E ok \in BOOLEAN :
          /\ i2c_write(buf, ok)
          /\ IF ok
             THEN /\ Return(<<>>, NoResult)
                  /\ buf' = <<>>
                  /\ air_status' = KeepStatus
                  /\ NoOutput
             ELSE die("air: write_mode: failed to write mode %d", <<drive_mode[1]>>)

(***************************************************************************)
(* air_read_alg_result, lines 269-283.                                     *)
(***************************************************************************)
\* line 271: select the algorithm result register.
air_read_alg_result_select ==
    /\ fpc = "alg_select"
    /\ \E ok \in BOOLEAN :
          /\ i2c_write(<<AIR_ALG_RESULT_DATA_REG>>, ok)
          /\ IF ok
             THEN /\ Goto("alg_read")
                  /\ air_status' = KeepStatus
                  /\ UNCHANGED buf /\ NoOutput
             ELSE die("air: read_alg_result: failed to select alg result data register",
                      <<>>)

\* lines 275-282: read four bytes and unpack them, then back in the caller.
air_read_alg_result_read ==
    /\ fpc = "alg_read"
    /\ \E ok \in BOOLEAN :
          IF ok
          THEN \E b \in AlgBufs :
                  /\ i2c_read(4, b, TRUE)
                  /\ air_alg_result' = air_read_alg_result_unpack(b)
                  /\ Return(<<>>, air_read_alg_result_unpack(b))
                  /\ air_status' = KeepStatus
                  /\ UNCHANGED buf /\ retval' = <<>>
          ELSE /\ i2c_read(4, <<>>, FALSE)
               /\ die("air: read_alg_result: failed to read alg result data register",
                      <<>>)

(***************************************************************************)
(* The program: main() from its first call.                                *)
(***************************************************************************)
Init ==
    /\ mainpc = "L290"
    /\ fn = "air_boot"
    /\ fpc = "status_select"
    /\ drive_mode = <<>>
    /\ air_status = <<>>
    /\ buf = <<>>
    /\ air_alg_result = <<>>
    /\ retval = <<>>
    /\ last = NoTransaction
    /\ selected = -1
    /\ status_all_0x88 = TRUE
    /\ mode_stored = <<>>
    /\ printed = <<Line("air: booting\r\n", <<>>)>>
    /\ exit_code = <<>>

Next ==
    \/ air_read_status_select
    \/ air_read_status_read
    \/ air_read_error_id_select
    \/ air_read_error_id_read
    \/ air_boot_cmd
    \/ air_write_mode_select
    \/ air_write_mode_read
    \/ air_write_mode_write
    \/ air_read_alg_result_select
    \/ air_read_alg_result_read

Spec == Init /\ [][Next]_vars

\* The program never pauses for ever: a call of the transport returns and the
\* sequential code after it runs, so a step that can be taken is taken.
SpecLive == Spec /\ WF_vars(Next)

(***************************************************************************)
(* The session operations called one after another, in any order and with  *)
(* any drive mode, by a caller that stops when one of them exits.          *)
(***************************************************************************)
InitSession ==
    /\ mainpc = "session"
    /\ \E c \in SessionCalls :
          /\ fn = c.fn
          /\ fpc = Entry(c.fn)
          /\ drive_mode = c.arg
    /\ air_status = <<>>
    /\ buf = <<>>
    /\ air_alg_result = <<>>
    /\ retval = <<>>
    /\ last = NoTransaction
    /\ selected = -1
    /\ status_all_0x88 = TRUE
    /\ mode_stored = <<>>
    /\ printed = <<>>
    /\ exit_code = <<>>

NextSession ==
    \/ Next
    \/ air_read_mode_select
    \/ air_read_mode_read

SpecSession == InitSession /\ [][NextSession]_vars

(***************************************************************************)
(* Properties.                                                             *)
(***************************************************************************)
\* ~0x70 on a char.
NotDriveModeMask == 255 - AIR_MODE_DRIVE_MODE_MASK

\* The step in which air_boot's status read succeeds and delivers a byte.
BootReadsStatus ==
    /\ fn = "air_boot"
    /\ fpc = "status_read"
    /\ last'.op = "read"
    /\ last'.ok

InvalidAppDiagnostic ==
    <<Line("air: boot: cannot boot, invalid app on device", <<>>), Line("\r\n", <<>>)>>

\* C1, as claimed: the value byte that air_write_mode sends in its 2-byte write
\* has, outside bits 4-6, the bits of the mode register byte it read just
\* before, for every byte read and every drive mode.
C1_ModeWritePreservesOtherBits ==
    [][(fn = "air_write_mode" /\ fpc = "mode_write")
         => /\ last.op = "read"
            /\ last'.op = "write"
            /\ last'.len = 2
            /\ BitAnd(last'.data[2], NotDriveModeMask)
                 = BitAnd(last.data[1], NotDriveModeMask)]_vars

\* C2, as claimed: whenever the status air_boot reads has app_valid 0, in
\* either firmware mode, air_boot dies with the invalid-app diagnostic and
\* sends no boot command.
C2_BootFailsWheneverAppInvalid ==
    [][(BootReadsStatus /\ air_read_status_decode(last'.data[1]).app_valid = 0)
         => /\ fpc' = "exited"
            /\ exit_code' = <<1>>
            /\ printed' = InvalidAppDiagnostic]_vars

\* C2, amended: whenever the status air_boot reads has app_valid 0 and
\* firmware mode Boot, air_boot dies with the invalid-app diagnostic; and
\* whenever it has app_valid 0, in either firmware mode, no boot command
\* follows.
C2_BootFailsWhenAppInvalidInBootMode ==
    [][/\ (/\ BootReadsStatus
           /\ air_read_status_decode(last'.data[1]).app_valid = 0
           /\ air_read_status_decode(last'.data[1]).fw_mode = AIR_STATUS_FW_MODE_BOOT)
          => /\ fpc' = "exited"
             /\ exit_code' = <<1>>
             /\ printed' = InvalidAppDiagnostic
       /\ (BootReadsStatus /\ air_read_status_decode(last'.data[1]).app_valid = 0)
          => fpc' # "boot_cmd"]_vars

\* C2, witness: air_boot has died on a status with app_valid 0 in Boot mode.
C2_Witness ==
    /\ mainpc = "L290"
    /\ fpc = "exited"
    /\ printed = InvalidAppDiagnostic
    /\ last.op = "read"
    /\ last.ok
    /\ Bit(last.data[1], 4) = 0
    /\ Bit(last.data[1], 7) = 0

\* C3: whenever the status air_boot reads has firmware mode Application,
\* whatever its other bits, air_boot returns to main without exiting and
\* without a boot command, and its only bus write was the select of the
\* status register.
C3_BootIdempotent ==
    [][(BootReadsStatus /\ Bit(last'.data[1], 7) = 1)
         => /\ last = Transaction("write", 1, <<AIR_STATUS_REG>>, TRUE)
            /\ mainpc = "L290"
            /\ mainpc' = "L291"
            /\ fn' = "air_die"
            /\ fpc' = "status_select"
            /\ exit_code' = <<>>
            /\ printed' = <<>>]_vars

\* C3, witness: air_boot has returned on a status with firmware mode
\* Application and app_valid 0.
C3_Witness ==
    /\ mainpc = "L291"
    /\ fpc = "status_select"
    /\ last.op = "read"
    /\ last.ok
    /\ Bit(last.data[1], 7) = 1
    /\ Bit(last.data[1], 4) = 0
    /\ exit_code = <<>>

\* C4: a write of the boot command register is issued only by air_boot, right
\* after a successful read of the status register that delivered a byte with
\* bit 4 set and bit 7 clear.
C4_BootCommandOnlyWhenValidAndNotBooted ==
    [][(last'.op = "write" /\ last'.data[1] = AIR_BOOT_APP_START_REG)
         => /\ fn = "air_boot"
            /\ last.op = "read"
            /\ last.ok
            /\ last.len = 1
            /\ selected = AIR_STATUS_REG
            /\ Bit(last.data[1], 4) = 1
            /\ Bit(last.data[1], 7) = 0]_vars

\* C4, witness: the boot command has been written.
C4_Witness ==
    /\ last = Transaction("write", 1, <<AIR_BOOT_APP_START_REG>>, TRUE)
    /\ mainpc = "L291"

\* The fields a status byte carries, by bit position.
StatusBits(r) ==
    [fw_mode |-> Bit(r, 7), app_valid |-> Bit(r, 4), data_ready |-> Bit(r, 3),
     error |-> Bit(r, 0)]

\* The four decoded fields of an air_status_t.
StatusFields(st) ==
    [fw_mode |-> st.fw_mode, app_valid |-> st.app_valid,
     data_ready |-> st.data_ready, error |-> st.error]

\* r with bit i inverted.
FlipBit(r, i) == IF Bit(r, i) = 1 THEN r - Pow2(i) ELSE r + Pow2(i)

\* main's air_status right after the status read of line 307 filled it: the
\* call of line 308 is about to start.
MainStatusJustRead ==
    /\ mainpc = "L308"
    /\ fpc = "status_select"
    /\ last.op = "read"

\* C5: for every status byte r, air_read_status decodes fw_mode = bit 7,
\* app_valid = bit 4, data_ready = bit 3 and error = bit 0 of r, each 0 or 1;
\* app_valid is the same for the bytes that differ from r in bit 1 or in
\* bit 2; and the byte built from the decoded fields decodes to the same
\* fields.
C5_StatusDecode ==
    (DOMAIN air_status # {}) =>
        /\ MainStatusJustRead => air_status.raw = last.data[1]
        /\ StatusFields(air_status) = StatusBits(air_status.raw)
        /\ \A i \in {1, 2} :
              air_read_status_decode(FlipBit(air_status.raw, i)).app_valid
                 = air_status.app_valid
        /\ StatusFields(air_read_status_decode(
                128 * air_status.fw_mode + 16 * air_status.app_valid
                  + 8 * air_status.data_ready + air_status.error))
              = StatusFields(air_status)

\* C5, witness: main has read the status byte 0x86, whose bits 1 and 2 lie
\* under the 0x16 mask and whose bit 4 is clear, and decoded app_valid 0.
C5_Witness ==
    /\ MainStatusJustRead
    /\ last.data = <<134>>
    /\ air_status.raw = 134
    /\ air_status.app_valid = 0
    /\ air_status.fw_mode = 1

\* C6: for every result buffer read, eco2 = 256 * buf[0] + buf[1] and
\* tvoc = 256 * buf[2] + buf[3], both below 65536; [0x01,0x90,0x00,0x64]
\* gives eco2 = 400 and tvoc = 100.
C6_AlgResultDecode ==
    (DOMAIN air_alg_result # {}) =>
        /\ last.op = "read" /\ last.len = 4 /\ last.ok
        /\ air_alg_result.eco2 = 256 * last.data[1] + last.data[2]
        /\ air_alg_result.tvoc = 256 * last.data[3] + last.data[4]
        /\ air_alg_result.eco2 \in 0 .. 65535
        /\ air_alg_result.tvoc \in 0 .. 65535
        /\ last.data = <<1, 144, 0, 100>>
              => air_alg_result = [eco2 |-> 400, tvoc |-> 100]

\* C6, witness: the buffer [0x01,0x90,0x00,0x64] has been read and unpacked.
C6_Witness ==
    /\ last = Transaction("read", 4, <<1, 144, 0, 100>>, TRUE)
    /\ air_alg_result = [eco2 |-> 400, tvoc |-> 100]

\* The diagnostic of each known fault, by error id 0..5: BadWrite, BadRead,
\* BadMode, MaxResistance, HeaterFault, HeaterSupply.
FaultMessage ==
    <<"a write occurred for an invalid register address",
      "a read occurred for an invalid register address",
      "the measurement drive mode is invalid",
      "the resistance is set too high",
      "the heater's current was not in range",
      "the heater's voltage is not being applied correctly">>

FaultDiagnostic(msg) ==
    <<Line("air: error: %s\r\n", <<msg>>), Line("\r\n", <<>>)>>

\* air_die has just read an error id.
AirDieReadErrorId ==
    /\ fn = "air_die"
    /\ last.op = "read"
    /\ last.ok
    /\ selected = AIR_ERROR_ID_REG

\* C7: the fault air_die reports for an error id is that of the table for
\* the ids 0..5 and the unknown one for every other id; the six known
\* messages differ from each other and from the unknown one.
C7_FaultClassification ==
    /\ \A i, j \in 1 .. 6 : i # j => FaultMessage[i] # FaultMessage[j]
    /\ \A i \in 1 .. 6 : FaultMessage[i] # "unknown error!"
    /\ AirDieReadErrorId =>
          /\ fpc = "exited"
          /\ last.data[1] \in 0 .. 5
                => printed = FaultDiagnostic(FaultMessage[last.data[1] + 1])
          /\ last.data[1] \notin 0 .. 5
                => printed = FaultDiagnostic("unknown error!")

\* C7, witness: air_die has read the error id 0x03 and reported the
\* resistance fault.
C7_Witness ==
    /\ AirDieReadErrorId
    /\ last.data = <<3>>
    /\ printed = FaultDiagnostic("the resistance is set too high")

\* C7, second witness state: an id outside 0..5 has been reported as unknown.
C7_WitnessUnknown ==
    /\ AirDieReadErrorId
    /\ last.data = <<255>>
    /\ printed = FaultDiagnostic("unknown error!")

\* C8: when the status read of air_die delivers a byte with the error bit
\* set, the next transactions are the select and the read of the error id
\* register; when that read delivers 0x04 the process exits with the heater
\* current diagnostic; and no step follows.
C8_HeaterFaultTerminates ==
    [][/\ (/\ fn = "air_die" /\ fpc = "status_read"
           /\ last'.op = "read" /\ last'.ok /\ Bit(last'.data[1], 0) = 1)
          => fpc' = "errid_select" /\ exit_code' = <<>>
       /\ (fn = "air_die" /\ fpc = "errid_select" /\ last'.ok)
          => fpc' = "errid_read" /\ exit_code' = <<>>
       /\ (/\ fn = "air_die" /\ fpc = "errid_read"
           /\ last'.op = "read" /\ last'.ok /\ last'.data = <<4>>)
          => /\ fpc' = "exited"
             /\ exit_code' = <<1>>
             /\ printed' = FaultDiagnostic("the heater's current was not in range")
       /\ ~(AirDieReadErrorId /\ last.data = <<4>>)]_vars

\* C8, witness: the process has exited on the error id 0x04.
C8_Witness ==
    /\ AirDieReadErrorId
    /\ last.data = <<4>>
    /\ fpc = "exited"
    /\ exit_code = <<1>>
    /\ printed = FaultDiagnostic("the heater's current was not in range")

\* The diagnostics of the failed bus transactions.
TransportDiagnostics ==
    {"air: read_status: failed to select status register",
     "air: read_status: failed to read air status register",
     "air: read_error_id: failed to select error id register",
     "air: read_error_id: failed to read error id",
     "air: boot: failed to boot",
     "air: read_mode: failed to set drive mode to constant high freq",
     "air: read_mode: failed to read mode register",
     "air: write_mode: failed to select measurement mode register",
     "air: write_mode: failed to read measurement mode register",
     "air: write_mode: failed to write mode %d",
     "air: read_alg_result: failed to select alg result data register",
     "air: read_alg_result: failed to read alg result data register"}

\* C9: a bus transaction of any session operation that fails is followed at
\* once by a diagnostic and exit(1), and no step, so no retry and no other
\* transaction, follows a failed transaction.
C9_FailFast ==
    [][/\ ~last'.ok
          => /\ fpc' = "exited"
             /\ exit_code' = <<1>>
             /\ Len(printed') = 2
             /\ printed'[1].fmt \in TransportDiagnostics
             /\ printed'[2] = Line("\r\n", <<>>)
       /\ last.ok]_vars

\* C9, witness: the 2-byte write of air_write_mode has failed and the process
\* has exited.
C9_Witness ==
    /\ fn = "air_write_mode"
    /\ last.op = "write"
    /\ last.len = 2
    /\ ~last.ok
    /\ fpc = "exited"
    /\ exit_code = <<1>>

\* C9, a second failed transaction: the read of air_read_mode.
C9_WitnessRead ==
    /\ fn = "air_read_mode"
    /\ last.op = "read"
    /\ ~last.ok
    /\ fpc = "exited"

\* Every transaction so far succeeded and every status read delivered 0x88.
EndToEnd == status_all_0x88 /\ last.ok

\* The result read of the end-to-end scenario.
EndToEndResultRead == last = Transaction("read", 4, <<2, 88, 0, 10>>, TRUE)

\* The values the most recent step printed.
PrintedValues ==
    UNION {{printed[i].args[j] : j \in 1 .. Len(printed[i].args)} :
              i \in 1 .. Len(printed)}

\* C10, as claimed: in the end-to-end scenario the report made after the
\* result [0x02,0x58,0x00,0x0A] carries eco2 = 600 and tvoc = 10.
C10_ReportsEco2AndTvoc ==
    (EndToEnd /\ EndToEndResultRead) => PrintedValues = {600, 10}

\* C10, amended: in the end-to-end scenario the process has not exited and can
\* take a step, the boot command register and the error id register have not
\* been written or selected, and the result [0x02,0x58,0x00,0x0A] is unpacked
\* to eco2 = 600, tvoc = 10 and reported by a line that carries tvoc = 10.
C10_EndToEnd ==
    EndToEnd =>
        /\ exit_code = <<>>
        /\ fpc # "exited"
        /\ ENABLED Next
        /\ selected \notin {AIR_BOOT_APP_START_REG, AIR_ERROR_ID_REG}
        /\ EndToEndResultRead
              => /\ air_alg_result = [eco2 |-> 600, tvoc |-> 10]
                 /\ printed = <<Line("air: tvoc=%d\r\n", <<10>>)>>
                 /\ mainpc = "L302"

\* C10, witness: the end-to-end scenario has reported its result.
C10_Witness ==
    /\ EndToEnd
    /\ EndToEndResultRead
    /\ air_alg_result = [eco2 |-> 600, tvoc |-> 10]
    /\ printed = <<Line("air: tvoc=%d\r\n", <<10>>)>>

(***************************************************************************)
(* The control loop of main(): the call that is running tells its phase.   *)
(***************************************************************************)
Booting == mainpc \in {"L290", "L291"}
Configuring == mainpc \in {"L296", "L297"}
Polling == mainpc \in {"L302", "L307", "L308"}
Reporting == mainpc = "L315"

\* The call that main() makes at each of its lines.
MainCalls ==
    [L290 |-> "air_boot", L291 |-> "air_die", L296 |-> "air_write_mode",
     L297 |-> "air_die", L302 |-> "air_read_status", L307 |-> "air_read_status",
     L308 |-> "air_die", L315 |-> "air_read_alg_result"]

\* The lines of main() that can follow one another.
MainOrder ==
    {<<"L290", "L291">>, <<"L291", "L296">>, <<"L296", "L297">>,
     <<"L297", "L302">>, <<"L302", "L307">>, <<"L307", "L308">>,
     <<"L308", "L307">>, <<"L308", "L315">>, <<"L315", "L302">>}

\* The step in which main() makes its next call.
MainCallStep == fpc' = "status_select" \/ fpc' = "mode_select" \/ fpc' = "alg_select"

\* The step selects the algorithm result register: a result read begins.
AlgResultSelect == last'.op = "write" /\ last'.data = <<AIR_ALG_RESULT_DATA_REG>>

\* C11: main() makes its calls in the order boot, fault check, write mode
\* OneSecond, fault check, then status reads and fault checks, then the result
\* read, then status reads again.  Each call begins only when the one before
\* has returned; the mode write begins only after the fault check that follows
\* boot; the first polling status read begins only after the fault check that
\* follows the mode write; a result read happens only in the call of line 315,
\* which is reached only from the polling loop; and the call that follows the
\* result read is a status read of the polling phase.
C11_ControlLoopOrder ==
    [][/\ fn' = MainCalls[mainpc']
       /\ mainpc' # mainpc
            => /\ <<mainpc, mainpc'>> \in MainOrder
               /\ fpc' = Entry(fn')
               /\ last'.op = "read" \/ last'.op = "write"
               /\ last'.ok
               /\ exit_code' = <<>>
       /\ mainpc' = mainpc => fpc' # Entry(fn) \/ fpc = "exited"
       /\ mainpc' = "L296" => fn = "air_die" \/ mainpc = "L296"
       /\ (mainpc' = "L296" /\ mainpc # "L296") => drive_mode' = <<AIR_MODE_1_SECOND>>
       /\ mainpc' = "L302" => (mainpc = "L297" /\ fn = "air_die") \/ Reporting \/ mainpc = "L302"
       /\ AlgResultSelect => Reporting /\ ~Booting' /\ ~Configuring'
       /\ Reporting => Reporting' \/ (Polling' /\ fn' = "air_read_status")]_vars

\* C11, witness: a result read has returned and main() is reading the status
\* again.
C11_Witness ==
    /\ mainpc = "L302"
    /\ fn = "air_read_status"
    /\ fpc = "status_select"
    /\ last.op = "read"
    /\ last.len = 4
    /\ last.ok

\* The step is a status read that succeeds and delivers a byte with bit 0, the
\* error bit, set.
StatusReadWithError ==
    /\ fpc = "status_read"
    /\ last'.op = "read"
    /\ last'.ok
    /\ Bit(last'.data[1], 0) = 1

\* The step is a bus transaction that fails (TransportError).
TransportErrorStep ==
    /\ ~last'.ok
    /\ Len(printed') = 2
    /\ printed'[1].fmt \in TransportDiagnostics

\* The step is air_boot's status read, with firmware mode Boot and the
\* application not valid (InvalidApplication).
InvalidApplicationStep ==
    /\ BootReadsStatus
    /\ Bit(last'.data[1], 7) = 0
    /\ Bit(last'.data[1], 4) = 0
    /\ printed' = InvalidAppDiagnostic

\* The step is air_die's read of the error id, which follows only a status
\* read of air_die with the error bit set (SensorFault).
SensorFaultStep ==
    /\ fn = "air_die"
    /\ fpc = "errid_read"
    /\ last'.op = "read"
    /\ last'.ok
    /\ selected = AIR_ERROR_ID_REG
    /\ \/ \E i \in 1 .. 6 : printed' = FaultDiagnostic(FaultMessage[i])
       \/ printed' = FaultDiagnostic("unknown error!")

\* C12: the process of main() that has not exited can always take a step, and
\* has no exit code; it exits only in a step that is a failed bus transaction,
\* air_boot's read of a status with firmware mode Boot and app_valid false, or
\* air_die's read of the error id, and then with exit code 1.  The error id
\* register is selected only after a status read of air_die that had the error
\* bit set, and read only after it was selected.  So a step whose transaction
\* succeeds, that is not a status read with the error bit set, not air_boot's
\* read of such an invalid status and not part of air_die's reading of the
\* error id, never exits, whatever the data_ready bit is.
C12_OnlyFatalExit ==
    /\ [](fpc # "exited" => ENABLED Next /\ exit_code = <<>>)
    /\ [](fpc = "exited" => exit_code = <<1>>)
    /\ [][/\ fpc' = "exited"
               => /\ exit_code' = <<1>>
                  /\ TransportErrorStep \/ InvalidApplicationStep \/ SensorFaultStep
          /\ fpc' = "errid_select"
               => fn = "air_die" /\ StatusReadWithError
          /\ fpc' = "errid_read"
               => fpc = "errid_select" /\ last'.ok
          /\ (/\ last'.ok
              /\ ~StatusReadWithError
              /\ ~(BootReadsStatus /\ Bit(last'.data[1], 7) = 0
                                   /\ Bit(last'.data[1], 4) = 0)
              /\ fpc \notin {"errid_select", "errid_read"})
               => /\ fpc' # "exited"
                  /\ exit_code' = <<>>]_vars

\* C12, witness: in the polling loop air_die read a status with the error bit
\* set, read the error id and ended the process with exit code 1.
C12_Witness ==
    /\ mainpc = "L308"
    /\ fn = "air_die"
    /\ fpc = "exited"
    /\ exit_code = <<1>>
    /\ selected = AIR_ERROR_ID_REG
    /\ last.op = "read"
    /\ last.ok

\* C12, a second case: after a report, with data_ready 0 in the status just
\* polled, the process goes on polling.
C12_WitnessRunning ==
    /\ mainpc = "L307"
    /\ fpc = "status_select"
    /\ air_status # <<>>
    /\ air_status.data_ready = 0
    /\ mode_stored # <<>>
    /\ exit_code = <<>>
    /\ ENABLED Next

\* The lines the step prints hold a measurement report.
Reports == \E i \in 1 .. Len(printed') : printed'[i].fmt = "air: tvoc=%d\r\n"

\* C13: the status that the loop test of line 310 uses is the one the status
\* read of line 307 delivered in the same pass of the loop, kept while the
\* air_die of line 308 runs; the result read of line 315 begins only at the
\* return of that air_die and only if the data_ready bit of that status was 1;
\* if the bit was 0 the next call is the status read of line 307 again, with
\* no report; the result register is selected only in the call of line 315 and
\* a report is printed only at its return.
C13_ResultReadOnlyWhenDataReady ==
    [][/\ (mainpc = "L307" /\ mainpc' = "L308")
            => /\ last' = Transaction("read", 1, last'.data, TRUE)
               /\ selected = AIR_STATUS_REG
               /\ air_status' = air_read_status_decode(last'.data[1])
               /\ air_status'.data_ready = Bit(last'.data[1], 3)
       /\ (mainpc = "L308" /\ mainpc' = "L308" /\ fpc' # "exited")
            => air_status' = air_status
       /\ (mainpc' = "L315" /\ mainpc # "L315")
            => /\ mainpc = "L308"
               /\ air_status.data_ready = 1
               /\ air_status' = air_status
       /\ (mainpc = "L308" /\ mainpc' # "L308" /\ air_status.data_ready = 0)
            => /\ mainpc' = "L307"
               /\ fn' = "air_read_status"
               /\ ~Reports
       /\ AlgResultSelect => mainpc = "L315"
       /\ (last'.op = "read" /\ last'.len = 4) => mainpc = "L315"
       /\ Reports => mainpc = "L315" /\ mainpc' = "L302"]_vars

\* C13, witness: the status polled at line 307 had data_ready = 1 and the
\* result read that followed has returned.
C13_Witness ==
    /\ mainpc = "L302"
    /\ fpc = "status_select"
    /\ last = Transaction("read", 4, last.data, TRUE)
    /\ air_status.data_ready = 1

\* C13, a second case: the status polled had data_ready = 0 and the loop reads
\* the status again.
C13_WitnessNotReady ==
    /\ mainpc = "L307"
    /\ fpc = "status_select"
    /\ last = Transaction("read", 1, last.data, TRUE)
    /\ air_status # <<>>
    /\ air_status.data_ready = 0

\* A status read that main() made itself returns to main().
MainStatusReadReturns ==
    /\ Polling
    /\ fn = "air_read_status"
    /\ mainpc' # mainpc

\* C14, as claimed: in the polling phase the call that follows every status
\* read of main() is air_die.
C14_EveryLoopStatusReadChecked ==
    [][MainStatusReadReturns => fn' = "air_die"]_vars

\* C14, amended: the call that follows the status read of line 307 is the
\* air_die of line 308, and the next status read of main() or the result read
\* begins only when that air_die has returned, which it does only after a
\* status read of its own with the error bit clear.  The status read of line
\* 302, the first of every cycle, is followed by the status read of line 307
\* and by no air_die; the status it delivered is replaced by that of line 307
\* before the loop test uses it.
C14_PollAttemptIsReadThenCheck ==
    [][/\ (mainpc = "L307" /\ mainpc' # mainpc)
            => /\ mainpc' = "L308"
               /\ fn' = "air_die"
       /\ (mainpc = "L308" /\ mainpc' # mainpc)
            => /\ fn = "air_die"
               /\ fpc = "status_read"
               /\ last' = Transaction("read", 1, last'.data, TRUE)
               /\ Bit(last'.data[1], 0) = 0
               /\ mainpc' \in {"L307", "L315"}
       /\ (mainpc' \in {"L307", "L315"} /\ mainpc' # mainpc)
            => mainpc = "L308" \/ (mainpc = "L302" /\ mainpc' = "L307")
       /\ (mainpc = "L302" /\ mainpc' # mainpc)
            => /\ mainpc' = "L307"
               /\ fn' = "air_read_status"
               /\ air_status' = air_read_status_decode(last'.data[1])
       /\ (mainpc = "L307" /\ mainpc' = "L308")
            => air_status' = air_read_status_decode(last'.data[1])]_vars

\* C14, witness: the status read of line 302 delivered a status with the
\* error bit set, and main() begins the status read of line 307.
C14_Witness ==
    /\ mainpc = "L307"
    /\ fn = "air_read_status"
    /\ fpc = "status_select"
    /\ last = Transaction("read", 1, last.data, TRUE)
    /\ Bit(last.data[1], 0) = 1
    /\ air_status.error = 1
    /\ exit_code = <<>>

\* C14, a second case: the air_die of line 308 has returned after the status
\* read of line 307 and main() reads the result.
C14_WitnessChecked ==
    /\ mainpc = "L315"
    /\ fpc = "alg_select"
    /\ last = Transaction("read", 1, last.data, TRUE)
    /\ Bit(last.data[1], 0) = 0

\* The status read of line 307 has just delivered a status with data_ready 1.
PolledDataReady ==
    /\ mainpc = "L308"
    /\ fpc = "status_select"
    /\ air_status # <<>>
    /\ air_status.data_ready = 1

\* main() has just printed a measurement report.
ReportEmitted ==
    /\ mainpc = "L302"
    /\ fpc = "status_select"
    /\ Len(printed) = 1
    /\ printed[1].fmt = "air: tvoc=%d\r\n"

\* C15: in a run of main() that never exits (so every bus transaction
\* succeeds, air_boot does not fail and air_die reads no status with the
\* error bit set) and in which the status read of line 307 delivers
\* data_ready = 1 again and again, every polling phase leads to the result
\* read of line 315 and a measurement report is printed again and again.
C15_ReportsInfinitelyOften ==
    ([](fpc # "exited") /\ []<>PolledDataReady)
        => ((Polling ~> Reporting) /\ []<>ReportEmitted)

\* C15, witness: a polled status had data_ready = 1 and the report of the
\* result read that followed has been printed.
C15_Witness ==
    /\ ReportEmitted
    /\ air_status # <<>>
    /\ air_status.data_ready = 1
    /\ last.ok
    /\ exit_code = <<>>

\* Bits 4-6 of a byte.
DriveModeField(v) == (v \div 16) % 8

\* C16: for every drive mode 0..7 and every byte the mode register delivers,
\* air_write_mode selects register 0x01 with a 1-byte write, reads 1 byte, and
\* then makes one 2-byte write [0x01, v] with bits 4-6 of v equal to the drive
\* mode, after which it returns or exits; a 2-byte write is made by no other
\* step.  When a later air_read_mode reads back the byte v that the latest
\* such write carried, it returns that drive mode.
C16_ModeRoundTrip ==
    [][/\ (fn = "air_write_mode" /\ fpc = "mode_select")
            => /\ drive_mode[1] \in DriveModes
               /\ last'.op = "write"
               /\ last'.data = <<AIR_MODE_REG>>
               /\ last'.ok => fpc' = "mode_read"
       /\ (fn = "air_write_mode" /\ fpc = "mode_read")
            => /\ last = Transaction("write", 1, <<AIR_MODE_REG>>, TRUE)
               /\ last'.op = "read"
               /\ last'.len = 1
               /\ last'.ok => fpc' = "mode_write"
       /\ (fn = "air_write_mode" /\ fpc = "mode_write")
            => /\ last = Transaction("read", 1, last.data, TRUE)
               /\ last.data[1] \in Byte
               /\ last'.op = "write"
               /\ last'.len = 2
               /\ Len(last'.data) = 2
               /\ last'.data[1] = AIR_MODE_REG
               /\ DriveModeField(last'.data[2]) = drive_mode[1]
               /\ fpc' # "mode_write"
               /\ last'.ok => mode_stored' = <<last'.data[2], drive_mode[1]>>
       /\ (last'.op = "write" /\ last'.len # 1)
            => fn = "air_write_mode" /\ fpc = "mode_write"
       /\ (/\ fn = "air_read_mode"
           /\ fpc = "mode_read"
           /\ last'.ok
           /\ mode_stored # <<>>
           /\ last'.data = <<mode_stored[1]>>)
            => retval' = <<mode_stored[2]>>]_vars

\* C16, witness: air_write_mode(5) wrote [0x01, v], and an air_read_mode that
\* read v back has returned 5.
C16_Witness ==
    /\ mainpc = "session"
    /\ mode_stored # <<>>
    /\ mode_stored[2] = 5
    /\ selected = AIR_MODE_REG
    /\ last = Transaction("read", 1, <<mode_stored[1]>>, TRUE)
    /\ retval = <<5>>

\* The 7-bit address of the sensor, 0x5A.
DeviceAddress == 90

\* The registers that are read, and the number of bytes read from each.
ReadLength ==
    [r \in {AIR_STATUS_REG, AIR_MODE_REG, AIR_ERROR_ID_REG, AIR_ALG_RESULT_DATA_REG}
        |-> IF r = AIR_ALG_RESULT_DATA_REG THEN 4 ELSE 1]

\* The register that the read at each place of the code is meant for.
RegisterRead ==
    [status_read |-> AIR_STATUS_REG, errid_read |-> AIR_ERROR_ID_REG,
     mode_read |-> AIR_MODE_REG, alg_read |-> AIR_ALG_RESULT_DATA_REG]

\* C17: every transaction is addressed to the sensor, 0x5A as a 7-bit address
\* (0xB4 as the 8-bit address the bus calls take).  Every bus read is made
\* right after a successful 1-byte write, the transaction before it, that
\* selects the register the read is meant for, one of 0x00, 0x01, 0xE0 and
\* 0x02, and reads 4 bytes from 0x02 and 1 byte from the others.
C17_SelectReadPairing ==
    [][/\ last'.addr = AIR_ADDR
       /\ last'.addr \div 2 = DeviceAddress
       /\ last'.addr % 2 = 0
       /\ last'.op \in {"read", "write"}
       /\ last'.op = "read"
            => /\ last = Transaction("write", 1, <<selected>>, TRUE)
               /\ selected \in DOMAIN ReadLength
               /\ selected = RegisterRead[fpc]
               /\ last'.len = ReadLength[selected]
               /\ last'.ok => Len(last'.data) = last'.len
               /\ selected' = selected]_vars

\* C17, witness: the 4 bytes of the result have been read right after the
\* select of register 0x02.
C17_Witness ==
    /\ mainpc = "session"
    /\ selected = AIR_ALG_RESULT_DATA_REG
    /\ last = Transaction("read", 4, last.data, TRUE)
    /\ Len(last.data) = 4

\* The transaction is a successful read of a status with the given error bit.
StatusReadWithErrorBit(t, e) ==
    /\ t = Transaction("read", 1, t.data, TRUE)
    /\ Len(t.data) = 1
    /\ Bit(t.data[1], 0) = e

\* The formats of the diagnostics that end the process.
Diagnostics ==
    TransportDiagnostics
      \cup {"air: error: %s\r\n", "air: boot: cannot boot, invalid app on device"}

\* C18: in main() the error id register is selected, and then read, only by
\* air_die and only when the transaction just before the select was air_die's
\* own status read, in the same call, and delivered a status with the error
\* bit set.  When air_die's status read delivers a status with the error bit
\* clear, air_die returns at once: the next transaction is the first of the
\* call that follows in main(), no diagnostic is printed, the process does not
\* exit, and the status that main() holds, the mode register and the register
\* selected on the bus are as they were.
C18_ErrorIdReadOnlyOnError ==
    [][/\ (last'.op = "write" /\ last'.data = <<AIR_ERROR_ID_REG>>)
            => /\ fn = "air_die"
               /\ fpc = "errid_select"
               /\ selected = AIR_STATUS_REG
               /\ StatusReadWithErrorBit(last, 1)
               /\ mainpc' = mainpc
       /\ fpc' = "errid_select"
            => /\ fn = "air_die"
               /\ fpc = "status_read"
               /\ StatusReadWithErrorBit(last', 1)
               /\ mainpc' = mainpc
       /\ (last'.op = "read" /\ selected = AIR_ERROR_ID_REG)
            => /\ fn = "air_die"
               /\ fpc = "errid_read"
       /\ (fn = "air_die" /\ fpc = "status_read" /\ StatusReadWithErrorBit(last', 0))
            => /\ mainpc' # mainpc
               /\ fpc' = Entry(fn')
               /\ fpc' \notin {"errid_select", "exited"}
               /\ exit_code' = <<>>
               /\ \A i \in 1 .. Len(printed') : printed'[i].fmt \notin Diagnostics
               /\ air_status' = air_status
               /\ mode_stored' = mode_stored
               /\ selected' = AIR_STATUS_REG
               /\ buf' = buf]_vars

\* C18, witness: the air_die of line 297 read a status with the error bit
\* clear and returned, and main() begins its first polling status read with
\* nothing printed but its own progress line.
C18_Witness ==
    /\ mainpc = "L302"
    /\ fpc = "status_select"
    /\ StatusReadWithErrorBit(last, 0)
    /\ printed = <<Line("air: set measurement mode\r\n", <<>>)>>
    /\ exit_code = <<>>

\* C18, a second case: air_die read a status with the error bit set and has
\* selected the error id register.
C18_WitnessFault ==
    /\ fn = "air_die"
    /\ fpc = "errid_read"
    /\ last = Transaction("write", 1, <<AIR_ERROR_ID_REG>>, TRUE)

\* C19: the transaction just before the select of the result register, so the
\* most recent status read on the bus, is the status read of the air_die of
\* line 308, and it delivered a status with the error bit clear; when that
\* air_die reads a status with the error bit set, the error id is read and the
\* process exits with no result read and no report in between.
C19_NoResultAfterError ==
    [][/\ AlgResultSelect
            => /\ selected = AIR_STATUS_REG
               /\ StatusReadWithErrorBit(last, 0)
               /\ mainpc = "L315"
       /\ (mainpc' = "L315" /\ mainpc # "L315")
            => /\ mainpc = "L308"
               /\ fn = "air_die"
               /\ StatusReadWithErrorBit(last', 0)
       /\ (mainpc = "L308" /\ fpc = "status_read" /\ StatusReadWithErrorBit(last', 1))
            => /\ fpc' = "errid_select"
               /\ mainpc' = "L308"
               /\ ~Reports
       /\ (mainpc = "L308" /\ fpc \in {"errid_select", "errid_read"})
            => /\ mainpc' = "L308"
               /\ fpc' \in {"errid_read", "exited"}
               /\ ~AlgResultSelect
               /\ ~Reports]_vars

\* C19, witness: the result register is selected right after a status read
\* with the error bit clear.
C19_Witness ==
    /\ mainpc = "L315"
    /\ fpc = "alg_read"
    /\ last = Transaction("write", 1, <<AIR_ALG_RESULT_DATA_REG>>, TRUE)
    /\ exit_code = <<>>

\* C19, a second case: the air_die of line 308 saw the error bit set after a
\* poll that had data_ready = 1, and the process has exited without a report.
C19_WitnessFault ==
    /\ mainpc = "L308"
    /\ fpc = "exited"
    /\ selected = AIR_ERROR_ID_REG
    /\ last.ok
    /\ printed[1].fmt = "air: error: %s\r\n"

\* The step writes the boot command register.
BootCommandWrite == last'.op = "write" /\ last'.data[1] = AIR_BOOT_APP_START_REG

\* The step writes the mode register: the 2-byte write of air_write_mode.
ModeRegisterWrite ==
    /\ last'.op = "write"
    /\ last'.len = 2
    /\ last'.data[1] = AIR_MODE_REG

\* The byte that holds drive mode OneSecond in bits 4-6 and 0 elsewhere.
OneSecondByte == AIR_MODE_1_SECOND * 16

\* C20: the boot command register is written only by the last transaction of
\* the air_boot of line 290, a call that main() makes once and never comes
\* back to, so at most once.  The mode register is written only by the last
\* transaction of the air_write_mode of line 296, only when it has not been
\* written before, and with drive mode 1 (OneSecond); in the polling and
\* reporting phases it has been written, with OneSecond, and every write on
\* the bus is a 1-byte select of the status, error id or result register, so
\* what the mode register was given stays.
C20_ConfigurationWrittenOnce ==
    /\ []((Polling \/ Reporting) => mode_stored = <<OneSecondByte, AIR_MODE_1_SECOND>>)
    /\ []((Booting \/ mainpc = "L296") => mode_stored = <<>>)
    /\ [][/\ BootCommandWrite
               => /\ mainpc = "L290"
                  /\ fn = "air_boot"
                  /\ last'.len = 1
                  /\ mainpc' = "L291" \/ fpc' = "exited"
          /\ mainpc' = "L290" => (mainpc = "L290" /\ ~BootCommandWrite) \/ fpc' = "exited"
          /\ ModeRegisterWrite
               => /\ mainpc = "L296"
                  /\ fn = "air_write_mode"
                  /\ mode_stored = <<>>
                  /\ last'.data = <<AIR_MODE_REG, OneSecondByte>>
                  /\ DriveModeField(last'.data[2]) = AIR_MODE_1_SECOND
                  /\ mainpc' = "L297" \/ fpc' = "exited"
          /\ mainpc' = "L296" => (mainpc = "L296" /\ ~ModeRegisterWrite)
                                   \/ mainpc = "L291" \/ fpc' = "exited"
          /\ (mainpc = "L296" /\ mainpc' = "L297")
               => ModeRegisterWrite /\ last'.ok
          /\ mode_stored' # mode_stored => ModeRegisterWrite
          /\ ((Polling \/ Reporting) /\ last'.op = "write")
               => /\ last'.len = 1
                  /\ last'.data[1] \in {AIR_STATUS_REG, AIR_ERROR_ID_REG,
                                        AIR_ALG_RESULT_DATA_REG}
                  /\ mode_stored' = mode_stored]_vars

\* C20, witness: main() has written the mode register once, with OneSecond,
\* and has gone through a polling and a reporting phase.
C20_Witness ==
    /\ mainpc = "L302"
    /\ mode_stored = <<OneSecondByte, AIR_MODE_1_SECOND>>
    /\ selected = AIR_ALG_RESULT_DATA_REG
    /\ last.op = "read"
    /\ last.ok

\* C20, a second case: air_boot has written the boot command register and
\* main() has gone on to line 291.
C20_WitnessBoot ==
    /\ mainpc = "L291"
    /\ fpc = "status_select"
    /\ last = Transaction("write", 1, <<AIR_BOOT_APP_START_REG>>, TRUE)

=============================================================================
